---- MODULE Spec2Model ----
(***************************************************************************)
(* Model of src/routes.ts (registerRoutes): the Express handlers of the    *)
(* chess-tracker backend.  Every handler is an async function; it runs     *)
(* synchronously up to its first `await`, is suspended while the storage   *)
(* or file-system promise is pending, and resumes with the promise's       *)
(* outcome.  A request slot holds one request from its arrival to its      *)
(* response; slots of different requests interleave at the awaits.         *)
(***************************************************************************)
EXTENDS Integers, Sequences, FiniteSets, TLC

\* ------------------------------------------------------------------ bounds
\* Record ids the storage hands out are 1..MaxId.
MaxId == 1
\* Storage holds at most MaxRecords records of the deletable collections; a
\* create beyond that fails.
MaxRecords == 1
\* The archive's content is one of 1..MaxContent (distinct byte strings).
MaxContent == 2

\* Two requests in flight at once: handlers share nothing but the storage
\* handle and the file system, so a second request is the whole of "other
\* in-flight requests".
Requests == {"r1", "r2"}

Ids == 1..MaxId
Contents == 1..MaxContent

\* ------------------------------------------------------- JavaScript values
Undefined == [type |-> "undefined"]
NaN == [type |-> "NaN"]
Num(n) == [type |-> "number", val |-> n]
Str(t) == [type |-> "string", val |-> t]
Bool(b) == [type |-> "bool", val |-> b]
NoError == [name |-> "none"]
NoOutcome == [kind |-> "none"]
NoRoute == "none"

\* A path parameter is a string: a sequence of characters.  DigitValue gives
\* the value of the characters that are decimal digits.
DigitValue == [c \in {"0", "1", "2", "3", "4", "5", "6", "7", "8", "9"} |->
                 CASE c = "0" -> 0 [] c = "1" -> 1 [] c = "2" -> 2 [] c = "3" -> 3
                   [] c = "4" -> 4 [] c = "5" -> 5 [] c = "6" -> 6 [] c = "7" -> 7
                   [] c = "8" -> 8 [] c = "9" -> 9]
DigitChar == <<"1", "2", "3", "4", "5", "6", "7", "8", "9">>
IsDigit(c) == c \in DOMAIN DigitValue

\* parseInt(s): the number written by the longest prefix of digits, NaN when
\* that prefix is empty (parseInt("1x") is 1, parseInt("x") is NaN).
RECURSIVE DigitsValue(_, _)
DigitsValue(s, acc) ==
    IF s = <<>> \/ ~IsDigit(Head(s)) THEN acc
    ELSE DigitsValue(Tail(s), acc * 10 + DigitValue[Head(s)])

parseInt(s) ==
    IF s = <<>> \/ ~IsDigit(Head(s)) THEN NaN ELSE Num(DigitsValue(s, 0))

\* Path parameters a client sends to name a record of a deletable
\* collection: every id, and a non-number.
ParamStrings == {<<DigitChar[i]>> : i \in Ids} \cup {<<"x">>}
\* The id and userId parameters of the other routes go to storage as they
\* are and storage answers freely, so one value stands for all.
OwnerParams == {<<"1">>}

\* JavaScript truthiness of the values the handlers test with `!v`.
Truthy(v) ==
    CASE v.type = "undefined" -> FALSE
      [] v.type = "bool"      -> v.val
      [] v.type = "string"    -> v.val # ""
      [] v.type = "number"    -> v.val # 0
      [] OTHER                -> TRUE


\* ------------------------------------------------------------------ routes
\* The handlers registerRoutes binds, by the shape of their code.
\*   fn       the storage function the handler awaits
\*   res      the collection a record-level operation acts on
\*   missing  the message of the handler's 404
\*   invalid  the message of the handler's 400
\*   schema   the creation schema the handler parses the body with
Route(kind, fn, res, missing, invalid, schema) ==
    [kind |-> kind, fn |-> fn, res |-> res, missing |-> missing,
     invalid |-> invalid, schema |-> schema]

RouteTable ==
    [ r \in {"GET /api/user/:id", "POST /api/user", "PATCH /api/user/:id",
             "GET /api/elo/:userId", "POST /api/elo",
             "GET /api/elo-stats/:userId/:period",
             "GET /api/daily-goals/:userId", "POST /api/daily-goals",
             "PATCH /api/daily-goals/:id", "DELETE /api/daily-goals/:id",
             "GET /api/courses/:userId", "POST /api/courses",
             "PATCH /api/courses/:id", "DELETE /api/courses/:id",
             "GET /api/goals/:userId", "POST /api/goals",
             "PATCH /api/goals/:id", "DELETE /api/goals/:id",
             "GET /api/game-analyses/:userId", "POST /api/game-analyses",
             "GET /api/game-analyses/single/:id",
             "POST /api/analyze-position", "GET /api/download", "GET /download"} |->
      CASE r = "GET /api/user/:id" ->
             Route("getById", "getUser", "users", "User not found", "", "")
        [] r = "POST /api/user" ->
             Route("create", "createUser", "users", "", "Invalid user data",
                   "insertUserSchema")
        [] r = "PATCH /api/user/:id" ->
             Route("update", "updateUser", "users", "User not found", "", "")
        [] r = "GET /api/elo/:userId" ->
             Route("list", "getEloEntries", "elo", "", "", "")
        [] r = "POST /api/elo" ->
             Route("create", "createEloEntry", "elo", "", "Invalid ELO entry data",
                   "insertEloEntrySchema")
        [] r = "GET /api/elo-stats/:userId/:period" ->
             Route("stats", "getEloStats", "elo", "", "Invalid period", "")
        [] r = "GET /api/daily-goals/:userId" ->
             Route("list", "getDailyGoals", "dailyGoals", "", "", "")
        [] r = "POST /api/daily-goals" ->
             Route("create", "createDailyGoal", "dailyGoals", "", "Invalid goal data",
                   "insertDailyGoalSchema")
        [] r = "PATCH /api/daily-goals/:id" ->
             Route("update", "updateDailyGoal", "dailyGoals", "Goal not found", "", "")
        [] r = "DELETE /api/daily-goals/:id" ->
             Route("delete", "deleteDailyGoal", "dailyGoals", "Goal not found", "", "")
        [] r = "GET /api/courses/:userId" ->
             Route("list", "getCourses", "courses", "", "", "")
        [] r = "POST /api/courses" ->
             Route("create", "createCourse", "courses", "", "Invalid course data",
                   "insertCourseSchema")
        [] r = "PATCH /api/courses/:id" ->
             Route("update", "updateCourse", "courses", "Course not found", "", "")
        [] r = "DELETE /api/courses/:id" ->
             Route("delete", "deleteCourse", "courses", "Course not found", "", "")
        [] r = "GET /api/goals/:userId" ->
             Route("list", "getGoals", "goals", "", "", "")
        [] r = "POST /api/goals" ->
             Route("create", "createGoal", "goals", "", "Invalid goal data",
                   "insertGoalSchema")
        [] r = "PATCH /api/goals/:id" ->
             Route("update", "updateGoal", "goals", "Goal not found", "", "")
        [] r = "DELETE /api/goals/:id" ->
             Route("delete", "deleteGoal", "goals", "Goal not found", "", "")
        [] r = "GET /api/game-analyses/:userId" ->
             Route("list", "getGameAnalyses", "gameAnalyses", "", "", "")
        [] r = "POST /api/game-analyses" ->
             Route("create", "createGameAnalysis", "gameAnalyses", "",
                   "Invalid analysis data", "insertGameAnalysisSchema")
        [] r = "GET /api/game-analyses/single/:id" ->
             Route("getById", "getGameAnalysis", "gameAnalyses",
                   "Analysis not found", "", "")
        [] r = "POST /api/analyze-position" ->
             Route("analyze", "", "", "", "FEN position required", "")
        [] r = "GET /api/download" ->
             Route("download", "", "", "Archive file not found", "", "")
        [] r = "GET /download" ->
             Route("page", "", "", "", "", "") ]

Routes == DOMAIN RouteTable
RoutesOf(kind) == {r \in Routes : RouteTable[r].kind = kind}

\* The collections whose records a DELETE route removes.
Deletable == {"dailyGoals", "courses", "goals"}

\* ------------------------------------------------------ schema validation
\* A request body is a JSON object: a function from its keys to values.
EmptyObject == [k \in {} |-> Undefined]
Get(obj, k) == IF k \in DOMAIN obj THEN obj[k] ELSE Undefined

\* The fields a creation schema requires, in declaration order.
SchemaFields(schema) ==
    IF schema = "insertUserSchema"
    THEN <<[name |-> "username", type |-> "string"]>>
    ELSE <<[name |-> "userId", type |-> "number"]>>

\* The issues zod reports for a body: one per required field that is missing
\* or of the wrong type.
RECURSIVE Issues(_, _)
Issues(fields, body) ==
    IF fields = <<>> THEN <<>>
    ELSE LET f == Head(fields)
             v == Get(body, f.name)
             rest == Issues(Tail(fields), body)
         IN  IF v.type = f.type THEN rest
             ELSE <<[code |-> "invalid_type", path |-> f.name,
                     expected |-> f.type, received |-> v.type]>> \o rest

ZodError(issues) == [name |-> "ZodError", issues |-> issues]
PlainError == [name |-> "Error"]

\* schema.parse(body): the body stripped to the schema's fields, or a thrown
\* ZodError carrying the issues.
Parse(schema, body) ==
    LET fields == SchemaFields(schema)
        issues == Issues(fields, body)
        names == {fields[i].name : i \in DOMAIN fields}
    IN  IF issues = <<>>
        THEN [thrown |-> NoError, data |-> [k \in names |-> body[k]]]
        ELSE [thrown |-> ZodError(issues), data |-> EmptyObject]

Conforms(schema, body) == Issues(SchemaFields(schema), body) = <<>>

\* Bodies a client posts to a create route.
CreateBodies ==
    {[username |-> Num(1)],
     [username |-> Str("ann"), userId |-> Num(1), extra |-> Bool(TRUE)]}

\* ----------------------------------------------------------------- storage
\* The storage collaborator.  A call settles by resolving with a value or by
\* rejecting with an error; which errors it raises is its own affair, an
\* error of zod's class included.
Resolved(v) == [kind |-> "resolve", value |-> v]
Rejected(e) == [kind |-> "reject", error |-> e]
\* What storage resolves with are rows and lists of rows read from the
\* database, which res.json serialises.
Entity == [type |-> "entity"]
List == [type |-> "list"]

StorageErrors == {PlainError, ZodError(<<[code |-> "custom", path |-> "storage"]>>)}

Present(st, res, id) == id.type = "number" /\ id.val \in st[res]
Stored(st) == {<<c, i>> \in (DOMAIN st) \X Ids : i \in st[c]}
FreeIds(st, res) ==
    IF Cardinality(Stored(st)) >= MaxRecords THEN {} ELSE Ids \ st[res]
NextId(st, res) == CHOOSE i \in FreeIds(st, res) : \A j \in FreeIds(st, res) : i <= j

\* The ways a pending storage call can settle, each with the storage it
\* leaves: [out, store].  Records of the deletable collections are tracked;
\* the other collections answer freely.
StorageSettles(route, id, st) ==
    LET rt == RouteTable[route]
        same(outs) == {[out |-> o, store |-> st] : o \in outs}
        entities == {Resolved(Entity)}
    IN  same({Rejected(e) : e \in StorageErrors}) \cup
        CASE rt.kind \in {"list", "stats"} ->
               same({Resolved(List)})
          [] rt.kind = "getById" ->
               same(entities \cup {Resolved(Undefined)})
          [] rt.kind = "create" /\ rt.res \notin Deletable ->
               same(entities)
          [] rt.kind = "create" /\ rt.res \in Deletable ->
               IF FreeIds(st, rt.res) = {} THEN {}
               ELSE {[out |-> o,
                      store |-> [st EXCEPT ![rt.res] = @ \cup {NextId(st, rt.res)}]] :
                        o \in entities}
          [] rt.kind = "update" /\ rt.res \notin Deletable ->
               same(entities \cup {Resolved(Undefined)})
          [] rt.kind = "update" /\ rt.res \in Deletable ->
               IF Present(st, rt.res, id) THEN same(entities)
               ELSE same({Resolved(Undefined)})
          [] rt.kind = "delete" ->
               IF Present(st, rt.res, id)
               THEN {[out |-> Resolved(Bool(TRUE)),
                      store |-> [st EXCEPT ![rt.res] = @ \ {id.val}]]}
               ELSE same({Resolved(Bool(FALSE))})
          [] OTHER -> {}

\* ---------------------------------------------------------------- response
\* The Express response object of one request: the headers set so far and
\* the responses written (the source means to write one).
NewRes == [headers |-> EmptyObject, sent |-> <<>>]

SetHeader(res, k, v) ==
    LET h == res.headers
    IN  [res EXCEPT !.headers =
            [x \in DOMAIN h \cup {k} |-> IF x = k THEN v ELSE h[x]]]

Write(res, status, body) ==
    [res EXCEPT !.sent = Append(@, [status |-> status, headers |-> res.headers,
                                    body |-> body])]

\* A piece of handler code ends normally or by throwing: [res, thrown].
Normal(res) == [res |-> res, thrown |-> NoError]
Throws(res, e) == [res |-> res, thrown |-> e]

\* res.status(status).json(body): set the JSON content type, send.
Json(res, status, body) ==
    Normal(Write(SetHeader(res, "Content-Type", "application/json"), status, body))

\* res.send(body) of a Buffer or a string: the content type already set stays.
Send(res, body) == Normal(Write(res, 200, body))

\* Catch500 as it would be in a handler written without try/catch.
Uncaught(c, message) == c

\* catch (error) { res.status(500).json({ message }) }
Catch500(c, message) ==
    IF c.thrown = NoError THEN c
    ELSE Json(c.res, 500, [message |-> message])

\* catch (error) { if (error instanceof z.ZodError) return 400 ...; 500 }
CatchCreate(c, invalid) ==
    IF c.thrown = NoError THEN c
    ELSE IF c.thrown.name = "ZodError"
         THEN Json(c.res, 400, [message |-> invalid, errors |-> c.thrown.issues])
         ELSE Json(c.res, 500, [message |-> "Internal server error"])

\* OrNotFound as it would be without the test of the value.
OrNotFoundUnchecked(res, value, missing, shown) == Json(res, 200, shown)

\* if (!value) return 404 ...; res.json(shown)
OrNotFound(res, value, missing, shown) ==
    IF ~Truthy(value) THEN Json(res, 404, [message |-> missing])
    ELSE Json(res, 200, shown)

\* AfterAwait as it would be if the delete handlers did not test `deleted`.
AfterAwaitDeleteUnchecked(kind, res, out, missing) ==
    IF out.kind = "reject" THEN Throws(res, out.error)
    ELSE CASE kind \in {"getById", "update"} ->
                OrNotFound(res, out.value, missing, out.value)
           [] kind = "delete" -> Json(res, 200, [success |-> TRUE])
           [] OTHER -> Json(res, 200, out.value)

\* The body of a try block that awaited a storage call, from the call's
\* outcome on: a rejection is thrown at the await.
AfterAwait(kind, res, out, missing) ==
    IF out.kind = "reject" THEN Throws(res, out.error)
    ELSE CASE kind \in {"getById", "update"} ->
                OrNotFound(res, out.value, missing, out.value)
           [] kind = "delete" ->
                OrNotFound(res, out.value, missing, [success |-> TRUE])
           [] OTHER -> Json(res, 200, out.value)

\* ------------------------------------------------------------------- state
VARIABLES
    req,      \* req[r]: the request in slot r and how far its handler has run
    store,    \* store[c]: the ids of the records in deletable collection c
    file      \* the archive sword-tracker.tar.gz: {} when absent, {bytes} else

vars == <<req, store, file>>

\* A request as it arrives.  pc is the handler's position: "idle" (no
\* request), "awaiting" (suspended at await storage.fn(...)), "access"
\* (at await fs.access), "reading" (at await fs.readFile), "done".
\* calls, out, found, raised and escaped record what the handler did: the
\* storage calls it made, the outcome it awaited last, whether the record
\* it named was in storage when the call settled, the errors thrown in its
\* try block, the error that left the handler uncaught.
Fresh(route, param, arg, body) ==
    [route |-> route, pc |-> "idle", param |-> param, arg |-> arg, body |-> body,
     res |-> NewRes, out |-> NoOutcome, calls |-> <<>>, found |-> FALSE,
     raised |-> <<>>, escaped |-> NoError]

IdleReq == Fresh(NoRoute, <<>>, Undefined, EmptyObject)

Init ==
    /\ req = [r \in Requests |-> IdleReq]
    /\ store = [c \in Deletable |-> {}]
    /\ file \in {{}} \cup {{c} : c \in Contents}

\* The slots after slot r has come to hold q.  Of the finished requests only
\* the latest is kept for inspection: when q is finished, a slot holding an
\* earlier finished request is free again.
Put(r, q) ==
    [s \in Requests |->
        IF s = r THEN q
        ELSE IF q.pc = "done" /\ req[s].pc = "done" THEN IdleReq ELSE req[s]]

\* The handler suspends at await storage.fn(args).
Suspend(q, fn, args) ==
    [q EXCEPT !.pc = "awaiting", !.calls = Append(@, [fn |-> fn, args |-> args])]

\* The handler returns: try is how its try block ended, handled how its
\* catch clause (run when try threw) ended.
Finish(q, try, handled) ==
    [q EXCEPT !.pc = "done", !.res = handled.res,
              !.raised = IF try.thrown = NoError THEN @ ELSE Append(@, try.thrown),
              !.escaped = handled.thrown]

\* ---------------------------------------------------------------- handlers
\* GET /api/user/:id, PATCH /api/*/:id, DELETE /api/*/:id, GET /api/*/:userId
\* up to the await: parse the id, call storage.
PeriodValues == {"week", "month", "year"}
\* PeriodValid as it would be if only a missing period were refused.
PeriodNonEmpty(period) == period # ""
\* ["week", "month", "year"].includes(period)
PeriodValid(period) == period \in PeriodValues
Periods == PeriodValues \cup {"abc", "Week"}
TypeFilters == {Undefined, Str("weekly")}

ByIdBegin(r) ==
    \E route \in RoutesOf("getById") \cup RoutesOf("update") \cup RoutesOf("delete"),
       p \in ParamStrings \cup OwnerParams :
        /\ req[r].pc = "idle"
        /\ RouteTable[route].res \notin Deletable => p \in OwnerParams
        /\ LET q == Fresh(route, p, Undefined, EmptyObject)
           IN  req' = Put(r,
                          Suspend(q, RouteTable[route].fn, <<parseInt(p)>>))
        /\ UNCHANGED <<store, file>>

\* GET /api/elo/:userId and the other collection routes; GET /api/goals
\* passes the type query parameter through.
ListBegin(r) ==
    \E route \in RoutesOf("list"), p \in OwnerParams, t \in TypeFilters :
        /\ req[r].pc = "idle"
        /\ route # "GET /api/goals/:userId" => t = Undefined
        /\ LET q == Fresh(route, p, t, EmptyObject)
               args == IF route = "GET /api/goals/:userId"
                       THEN <<parseInt(p), t>> ELSE <<parseInt(p)>>
           IN  req' = Put(r, Suspend(q, RouteTable[route].fn, args))
        /\ UNCHANGED <<store, file>>

\* GET /api/elo-stats/:userId/:period up to the await or the 400.
StatsBegin(r) ==
    \E route \in RoutesOf("stats"), p \in OwnerParams, period \in Periods :
        /\ req[r].pc = "idle"
        /\ LET q == Fresh(route, p, Str(period), EmptyObject)
               rejected == Json(q.res, 400, [message |-> RouteTable[route].invalid])
           IN  req' = Put(r,
                          IF ~PeriodValid(period)
                          THEN Finish(q, rejected, rejected)
                          ELSE Suspend(q, RouteTable[route].fn,
                                       <<parseInt(p), period>>))
        /\ UNCHANGED <<store, file>>

\* Validate as it would be if the body went to storage as it came, as the
\* PATCH handlers pass it.
ValidateNothing(schema, body) == [thrown |-> NoError, data |-> body]

\* The payload a create handler hands to storage: the parsed body.
Validate(schema, body) == Parse(schema, body)

\* POST /api/user and the other create routes up to the await, or to the
\* 400 when parse throws.
CreateBegin(r) ==
    \E route \in RoutesOf("create"), body \in CreateBodies :
        /\ req[r].pc = "idle"
        /\ LET q == Fresh(route, <<>>, Undefined, body)
               rt == RouteTable[route]
               parsed == Validate(rt.schema, body)
               try == Throws(q.res, parsed.thrown)
           IN  req' = Put(r,
                          IF parsed.thrown # NoError
                          THEN Finish(q, try, CatchCreate(try, rt.invalid))
                          ELSE Suspend(q, rt.fn, <<parsed.data>>))
        /\ UNCHANGED <<store, file>>

\* Continue as it would be if a failed storage call were made once more.
ContinueRetrying(q, out, try, handled) ==
    IF out.kind = "reject" /\ Len(q.calls) = 1
    THEN Suspend(q, q.calls[1].fn, q.calls[1].args)
    ELSE Finish([q EXCEPT !.out = out], try, handled)

\* The request after the continuation of an await: the try block's rest
\* ran and ended as try, the catch clause as handled.
Continue(q, out, try, handled) == Finish([q EXCEPT !.out = out], try, handled)

\* The storage call of a suspended handler settles and the handler runs on
\* to its response.
StorageResume(r) ==
    /\ req[r].pc = "awaiting"
    /\ LET q == req[r]
           rt == RouteTable[q.route]
           id == IF q.param = <<>> THEN NaN ELSE parseInt(q.param)
       IN  \E s \in StorageSettles(q.route, id, store) :
             LET try == AfterAwait(rt.kind, q.res, s.out, rt.missing)
                 handled == IF rt.kind = "create" THEN CatchCreate(try, rt.invalid)
                            ELSE Catch500(try, "Internal server error")
                 found == rt.res \in Deletable /\ Present(store, rt.res, id)
             IN  /\ req' = Put(r,
                               Continue([q EXCEPT !.found = found], s.out, try, handled))
                 /\ store' = s.store
    /\ UNCHANGED file

\* POST /api/analyze-position: no await, the handler runs to its response.
DefaultDepth == 15
FenValues == {Undefined, Str(""), Str("fenA"), Str("fenB")}
DepthValues == {Undefined, Num(0), Num(10)}
AnalyzeBody(fen, depth) ==
    LET keys == (IF fen = Undefined THEN {} ELSE {"fen"}) \cup
                (IF depth = Undefined THEN {} ELSE {"depth"})
    IN  [k \in keys |-> IF k = "fen" THEN fen ELSE depth]

\* DepthOf as it would be with `depth || 15`.
DepthOrDefault(body) ==
    IF Truthy(Get(body, "depth")) THEN Get(body, "depth") ELSE Num(DefaultDepth)

\* const { fen, depth = 15 } = req.body: the default replaces undefined only.
DepthOf(body) ==
    IF Get(body, "depth") = Undefined THEN Num(DefaultDepth) ELSE Get(body, "depth")

MockAnalysis(depth) ==
    [evaluation |-> "0.4", bestMove |-> "Nf3",
     principalVariation |-> <<"Nf3", "d5", "d4", "Nf6">>, depth |-> depth]

AnalyzePosition(r) ==
    \E route \in RoutesOf("analyze"), fen \in FenValues, depth \in DepthValues :
        /\ req[r].pc = "idle"
        /\ LET q == Fresh(route, <<>>, Undefined, AnalyzeBody(fen, depth))
               try == IF ~Truthy(Get(q.body, "fen"))
                      THEN Json(q.res, 400, [message |-> RouteTable[route].invalid])
                      ELSE Json(q.res, 200, MockAnalysis(DepthOf(q.body)))
           IN  req' = Put(r, Finish(q, try, Catch500(try, "Analysis error")))
        /\ UNCHANGED <<store, file>>

\* GET /api/download up to await fs.access(archivePath).
DownloadBegin(r) ==
    \E route \in RoutesOf("download") :
        /\ req[r].pc = "idle"
        /\ req' = Put(r,
                      [Fresh(route, <<>>, Undefined, EmptyObject) EXCEPT !.pc = "access"])
        /\ UNCHANGED <<store, file>>

\* AfterAccess as it would be without the existence check.
AfterAccessUnchecked(q, exists) ==
    [q EXCEPT !.pc = "reading",
              !.res = SetHeader(
                        SetHeader(@, "Content-Disposition",
                                  "attachment; filename=sword-tracker.tar.gz"),
                        "Content-Type", "application/gzip")]

\* What the handler does once fs.access has settled: the inner catch sends
\* the 404, otherwise the headers are set and the handler goes on to
\* await fs.readFile(archivePath).
AfterAccess(q, exists) ==
    IF ~exists
    THEN LET sent == Json(q.res, 404, [message |-> RouteTable[q.route].missing])
         IN  Finish(q, sent, sent)
    ELSE [q EXCEPT !.pc = "reading",
                   !.res = SetHeader(
                             SetHeader(@, "Content-Disposition",
                                       "attachment; filename=sword-tracker.tar.gz"),
                             "Content-Type", "application/gzip")]

\* fs.access settles: it rejects exactly when the file is not there.
DownloadAccess(r) ==
    /\ req[r].pc = "access"
    /\ req' = Put(r,
                  AfterAccess([req[r] EXCEPT !.found = file # {}], file # {}))
    /\ UNCHANGED <<store, file>>

\* fs.readFile settles, with the bytes the file holds then or with ENOENT,
\* and the handler sends the buffer or falls to its catch clause.
DownloadRead(r) ==
    /\ req[r].pc = "reading"
    /\ LET q == req[r]
           out == IF file = {} THEN Rejected([name |-> "ENOENT"])
                  ELSE Resolved([bytes |-> CHOOSE c \in file : TRUE])
           try == IF out.kind = "reject" THEN Throws(q.res, out.error)
                  ELSE Send(q.res, out.value)
       IN  req' = Put(r,
                      Continue(q, out, try, Catch500(try, "Download error")))
    /\ UNCHANGED <<store, file>>

\* GET /download: the landing page; the handler has no try block.
DownloadPage(r) ==
    \E route \in RoutesOf("page") :
        /\ req[r].pc = "idle"
        /\ LET q == Fresh(route, <<>>, Undefined, EmptyObject)
               try == Send(SetHeader(q.res, "Content-Type", "text/html"),
                           [html |-> "downloadPage"])
           IN  req' = Put(r, Finish(q, try, try))
        /\ UNCHANGED <<store, file>>

\* The response is out; the slot takes the next request.
Recycle(r) ==
    /\ req[r].pc = "done"
    /\ req' = Put(r, IdleReq)
    /\ UNCHANGED <<store, file>>

\* ------------------------------------------------------------- environment
\* Another process writes the archive (creating or replacing it).
FsWrite ==
    /\ \E c \in Contents : file' = {c} /\ file # {c}
    /\ UNCHANGED <<req, store>>

\* Another process removes the archive.
FsRemove ==
    /\ file # {}
    /\ file' = {}
    /\ UNCHANGED <<req, store>>

Next ==
    \/ \E r \in Requests : ByIdBegin(r)
    \/ \E r \in Requests : ListBegin(r)
    \/ \E r \in Requests : StatsBegin(r)
    \/ \E r \in Requests : CreateBegin(r)
    \/ \E r \in Requests : StorageResume(r)
    \/ \E r \in Requests : AnalyzePosition(r)
    \/ \E r \in Requests : DownloadBegin(r)
    \/ \E r \in Requests : DownloadAccess(r)
    \/ \E r \in Requests : DownloadRead(r)
    \/ \E r \in Requests : DownloadPage(r)
    \/ \E r \in Requests : Recycle(r)
    \/ FsWrite
    \/ FsRemove

Spec == Init /\ [][Next]_vars

\* Node runs every continuation whose promise has settled, and the claims
\* about progress assume that every awaited operation settles.
Handler(r) ==
    StorageResume(r) \/ DownloadAccess(r) \/ DownloadRead(r)

FairSpec == Spec /\ \A r \in Requests : WF_vars(Handler(r))

\* =================================================================== claims
Kind(r) == RouteTable[req[r].route].kind
Active(r) == req[r].pc # "idle"
Done(r) == req[r].pc = "done"
Sent(r) == req[r].res.sent
\* The response of a finished request that sent exactly one.
Response(r) == Sent(r)[1]
Replied(r, status, body) ==
    /\ Len(Sent(r)) = 1
    /\ Response(r).status = status
    /\ Response(r).body = body
Generic500(r) == Replied(r, 500, [message |-> "Internal server error"])
HasErrors(r) == \E i \in DOMAIN Sent(r) : "errors" \in DOMAIN Sent(r)[i].body
BodyConforms(r) == Conforms(RouteTable[req[r].route].schema, req[r].body)

\* C1: on a create route a body that violates the creation schema gets 400
\* with a non-empty errors list and no storage call is made for it; the
\* storage create function is called only with a payload that passed
\* validation.
C1_InvalidBodyNeverReachesStorage ==
    \A r \in Requests :
        (Active(r) /\ Kind(r) = "create") =>
            LET rt == RouteTable[req[r].route] IN
            /\ ~BodyConforms(r) =>
                  /\ req[r].calls = <<>>
                  /\ Done(r)
                  /\ Len(Sent(r)) = 1
                  /\ Response(r).status = 400
                  /\ Response(r).body.message = rt.invalid
                  /\ Len(Response(r).body.errors) > 0
            /\ \A i \in DOMAIN req[r].calls :
                  /\ BodyConforms(r)
                  /\ req[r].calls[i].fn = rt.fn
                  /\ Len(req[r].calls[i].args) = 1
                  /\ Conforms(rt.schema, req[r].calls[i].args[1])

C1_Witness ==
    \E r \in Requests :
        /\ Done(r) /\ Kind(r) = "create" /\ ~BodyConforms(r)
        /\ Replied(r, 400, Response(r).body)
        /\ \E s \in Requests :
              /\ s # r /\ Active(s) /\ Kind(s) = "create" /\ req[s].calls # <<>>

\* C2: on a create route an errors list (status 400) is returned only when
\* the body violated the schema; when the body passed validation and the
\* storage create call fails with any error, an error of zod's class
\* included, the response is the generic 500 without an errors field.
C2_ErrorsOnlyForSchemaViolations ==
    \A r \in Requests :
        (Done(r) /\ Kind(r) = "create") =>
            /\ HasErrors(r) => ~BodyConforms(r)
            /\ (BodyConforms(r) /\ req[r].out.kind = "reject") =>
                  (Generic500(r) /\ ~HasErrors(r))

\* C3: on every route an exception raised inside the handler (other than
\* the schema violation of a create body, which is the 400 of C1) is caught
\* and answered with a 500 whose body is the generic message alone.
GenericMessage(r) ==
    CASE Kind(r) = "analyze"  -> "Analysis error"
      [] Kind(r) = "download" -> "Download error"
      [] OTHER                -> "Internal server error"

C3_EveryExceptionIsGeneric500 ==
    \A r \in Requests :
        (Done(r) /\ req[r].raised # <<>>
                 /\ ~(Kind(r) = "create" /\ ~BodyConforms(r))) =>
            /\ req[r].escaped = NoError
            /\ Replied(r, 500, [message |-> GenericMessage(r)])

\* C4: on the two fetch-by-id routes the response is 404 when the getter
\* resolved with nothing, 500 when it threw, and 200 with the entity only
\* when the getter returned an entity.
C4_FetchById ==
    \A r \in Requests :
        (Done(r) /\ Kind(r) = "getById") =>
            LET out == req[r].out IN
            /\ out.kind \in {"resolve", "reject"}
            /\ (out.kind = "resolve" /\ out.value = Undefined) =>
                  Replied(r, 404, [message |-> RouteTable[req[r].route].missing])
            /\ out.kind = "reject" => Generic500(r)
            /\ (\E i \in DOMAIN Sent(r) : Sent(r)[i].status = 200) =>
                  /\ out = Resolved(Entity)
                  /\ Replied(r, 200, Entity)

C4_Witness ==
    \E r \in Requests :
        /\ Done(r) /\ req[r].route = "GET /api/game-analyses/single/:id"
        /\ req[r].out = Resolved(Undefined)
        /\ Replied(r, 404, [message |-> "Analysis not found"])

\* C5: GET /api/elo-stats with a period other than week, month, year gets
\* 400 and makes no storage call; storage.getEloStats is only ever called
\* with one of those three periods.
C5_PeriodCheckedBeforeStorage ==
    \A r \in Requests :
        /\ (Active(r) /\ Kind(r) = "stats"
                      /\ req[r].arg.val \notin {"week", "month", "year"}) =>
              /\ req[r].calls = <<>>
              /\ Done(r)
              /\ Replied(r, 400, [message |-> "Invalid period"])
        /\ \A i \in DOMAIN req[r].calls :
              req[r].calls[i].fn = "getEloStats" =>
                  req[r].calls[i].args[2] \in {"week", "month", "year"}

C5_Witness ==
    \E r, s \in Requests :
        /\ Done(r) /\ Kind(r) = "stats" /\ req[r].arg = Str("abc")
        /\ Replied(r, 400, [message |-> "Invalid period"])
        /\ Active(s) /\ Kind(s) = "stats" /\ Len(req[s].calls) = 1

\* C6: on a delete route the response is 404 when storage reports that
\* nothing was deleted, and 200 with {success: true} exactly when it reports
\* a deletion; with a storage that removes the record it deletes, deleting
\* an id whose record is not there (already deleted, never created) is 404.
C6_Delete ==
    \A r \in Requests :
        (Done(r) /\ Kind(r) = "delete") =>
            LET out == req[r].out
                ok == \E i \in DOMAIN Sent(r) : Sent(r)[i].status = 200
            IN
            /\ out = Resolved(Bool(FALSE)) =>
                  Replied(r, 404, [message |-> RouteTable[req[r].route].missing])
            /\ ok <=> out = Resolved(Bool(TRUE))
            /\ ok => Replied(r, 200, [success |-> TRUE])
            /\ ok => req[r].found
            /\ (~req[r].found /\ out.kind = "resolve") => Response(r).status = 404

\* A delete of record 1 of a collection that does not hold it (it was
\* deleted before, or was never created), answered 404.
C6_Witness ==
    \E r \in Requests :
        /\ Done(r) /\ req[r].route = "DELETE /api/courses/:id"
        /\ req[r].param = <<"1">>
        /\ ~req[r].found
        /\ Replied(r, 404, [message |-> "Course not found"])
        /\ store["courses"] = {}

\* C7: POST /api/analyze-position without a fen gets 400; with a fen it gets
\* 200 with the same evaluation, best move and principal variation whatever
\* the fen and depth, and with depth the requested depth, or 15 when the
\* body has none.  (An empty fen counts as none.)
C7_AnalyzePosition ==
    \A r \in Requests :
        (Active(r) /\ Kind(r) = "analyze") =>
            LET body == req[r].body
                nofen == "fen" \notin DOMAIN body \/ body.fen = Str("")
            IN
            /\ Done(r)
            /\ req[r].calls = <<>>
            /\ nofen => Replied(r, 400, [message |-> "FEN position required"])
            /\ ~nofen =>
                  Replied(r, 200,
                          [evaluation |-> "0.4", bestMove |-> "Nf3",
                           principalVariation |-> <<"Nf3", "d5", "d4", "Nf6">>,
                           depth |-> IF "depth" \in DOMAIN body THEN body.depth
                                     ELSE Num(15)])

C7_Witness ==
    \E r \in Requests :
        /\ Done(r) /\ Kind(r) = "analyze"
        /\ req[r].body = [fen |-> Str("fenB"), depth |-> Num(0)]
        /\ Response(r).status = 200
        /\ Response(r).body.depth = Num(0)

\* C8 as stated: GET /api/download answers 404 when the archive is absent,
\* at the existence check or at the read, whatever happens to the file in
\* between, and the file's bytes with Content-Type application/gzip when it
\* is present.
Gzip(r) ==
    /\ "Content-Type" \in DOMAIN Response(r).headers
    /\ Response(r).headers["Content-Type"] = "application/gzip"

C8_AbsentArchiveIsAlways404 ==
    \A r \in Requests :
        (Done(r) /\ Kind(r) = "download") =>
            /\ Len(Sent(r)) = 1
            /\ ~req[r].found => Response(r).status = 404
            /\ req[r].out.kind = "reject" => Response(r).status = 404
            /\ req[r].out.kind = "resolve" =>
                  (Replied(r, 200, req[r].out.value) /\ Gzip(r))

\* C8 amended: 404 when the archive is absent at the existence check (the
\* file is then not read); when it is there at the check and at the read,
\* 200 with the bytes the file holds at the read and Content-Type
\* application/gzip; when it is there at the check and gone at the read,
\* 500 "Download error".
C8_DownloadOutcome ==
    \A r \in Requests :
        (Done(r) /\ Kind(r) = "download") =>
            /\ ~req[r].found =>
                  /\ Replied(r, 404, [message |-> "Archive file not found"])
                  /\ req[r].out = NoOutcome
            /\ (req[r].found /\ req[r].out.kind = "resolve") =>
                  /\ Replied(r, 200, req[r].out.value)
                  /\ Gzip(r)
            /\ (req[r].found /\ req[r].out.kind = "reject") =>
                  Replied(r, 500, [message |-> "Download error"])
            /\ req[r].found => req[r].out.kind \in {"resolve", "reject"}

\* The steps of the download handler against the file as it is then.
C8_DownloadStep ==
    \A r \in Requests :
        /\ (req[r].pc = "access" /\ req'[r].pc # "access") =>
              /\ req'[r].found = (file # {})
              /\ req'[r].pc = IF file = {} THEN "done" ELSE "reading"
        /\ (req[r].pc = "reading" /\ req'[r].pc # "reading") =>
              /\ req'[r].pc = "done"
              /\ req'[r].found
              /\ file = {} => req'[r].out.kind = "reject"
              /\ file # {} => /\ req'[r].out.kind = "resolve"
                              /\ file = {req'[r].out.value.bytes}

C8_Download == []C8_DownloadOutcome /\ [][C8_DownloadStep]_vars

\* The archive was there at the check and gone at the read.
C8_Witness ==
    \E r \in Requests :
        /\ Done(r) /\ Kind(r) = "download"
        /\ req[r].found /\ req[r].out.kind = "reject"
        /\ Replied(r, 500, [message |-> "Download error"])

\* C9: every request makes at most one storage call on every path, a failed
\* call is not made again, and a request rejected before delegation (invalid
\* create body, invalid period, analyze-position) makes none.
C9_AtMostOneStorageCall ==
    \A r \in Requests :
        Active(r) =>
            /\ Len(req[r].calls) <= 1
            /\ (req[r].out.kind = "reject" /\ Kind(r) # "download") =>
                  (Done(r) /\ Len(req[r].calls) = 1)
            /\ (Kind(r) = "create" /\ ~BodyConforms(r)) => req[r].calls = <<>>
            /\ (Kind(r) = "stats" /\ req[r].arg.val \notin {"week", "month", "year"}) =>
                  req[r].calls = <<>>
            /\ Kind(r) \in {"analyze", "download", "page"} => req[r].calls = <<>>
            /\ (Done(r) /\ req[r].calls = <<>>) => req[r].out.kind # "resolve"
                                                   \/ Kind(r) = "download"

C9_Witness ==
    \E r \in Requests :
        /\ Done(r) /\ Kind(r) = "update"
        /\ req[r].out.kind = "reject"
        /\ Len(req[r].calls) = 1
        /\ Generic500(r)

\* C10: every request whose awaited operation settles gets a response, and
\* exactly one: a handler in flight has sent nothing, a finished handler has
\* sent one response and no error left it, however the requests interleave.
C10_OneResponse ==
    \A r \in Requests :
        /\ Len(Sent(r)) <= 1
        /\ (Active(r) /\ ~Done(r)) => Sent(r) = <<>>
        /\ Done(r) => (Len(Sent(r)) = 1 /\ req[r].escaped = NoError)

C10_ExactlyOneResponse ==
    /\ []C10_OneResponse
    /\ \A r \in Requests : (Active(r) /\ ~Done(r)) ~> Done(r)

\* A request finished with its one response while another is suspended.
C10_Witness ==
    \E r, s \in Requests :
        /\ Done(r) /\ Kind(r) = "delete" /\ Len(Sent(r)) = 1
        /\ req[s].pc = "reading"

====
